---- MODULE Spec2Model ----
(***************************************************************************)
(* Model of add-delete-subscription-lambda.py: a Lambda handler that adds  *)
(* or removes an Amazon Q Business subscription together with the IAM      *)
(* Identity Center application assignment of the same principal.           *)
(*                                                                         *)
(* One invocation of lambda_handler is a run of steps: LambdaHandler       *)
(* (parsing, dispatch and validation: no upstream call), then one step per *)
(* upstream call of add_subscription or delete_subscription.  Every        *)
(* upstream call may succeed or fail; a failed call changes nothing in the *)
(* service it was sent to.  The two services keep their state between      *)
(* invocations; the handler keeps none.                                    *)
(***************************************************************************)
EXTENDS Integers, Sequences, FiniteSets, TLC

(* ------------------------------ bounds -------------------------------- *)
\* largest number of subscription records the Subscription Service holds
MaxSubs == 2
\* number of invocations of lambda_handler in one behaviour
MaxInvocations == 2

(* --------------------------- Python values ---------------------------- *)
None == "<None>"
EmptyDict == [k \in {} |-> None]

\* bool(v) for the values a request field takes: None and "" are falsy
Truthy(v) == v \notin {None, ""}

\* all([...]) over a set of values
All(vs) == \A v \in vs : Truthy(v)

\* str.lower() on the strings a request carries as assignmentType
Lower(s) ==
    CASE s = "GROUP" -> "group"
      [] s = "USER"  -> "user"
      [] s = "Group" -> "group"
      [] OTHER       -> s

\* dict.get(k) with the default None
Get(d, k) == IF k \in DOMAIN d THEN d[k] ELSE None

(* ------------------------ the inbound requests ------------------------ *)
Regions         == {None, "us-east-1"}
ApplicationIds  == {None, "app1"}
AssignmentTypes == {None, "GROUP", "USER", "Group"}
AssignmentIds   == {None, "", "p1", "p2"}
SubscriptionTypes == {None, "Q_LITE", "Q_PRO"}

\* the JSON object of a POST body, or the query parameters of a DELETE
PostFields ==
    [region : Regions, applicationId : ApplicationIds,
     assignmentType : AssignmentTypes, assignmentId : AssignmentIds,
     subscriptionType : SubscriptionTypes]
QueryFields ==
    [region : Regions, applicationId : ApplicationIds,
     assignmentType : AssignmentTypes, assignmentId : AssignmentIds]

\* event: httpMethod (None: the key is absent), the body (bodyKind: "absent",
\* "object", "invalid" JSON text, "array": JSON that is no object) and the
\* queryStringParameters (queryKind: "null" or "object")
Events ==
    [httpMethod : {"POST"}, bodyKind : {"object"}, body : PostFields,
     queryKind : {"null"}, query : {EmptyDict}]
    \cup [httpMethod : {"POST"}, bodyKind : {"absent", "invalid", "array"},
          body : {EmptyDict}, queryKind : {"null"}, query : {EmptyDict}]
    \cup [httpMethod : {"DELETE"}, bodyKind : {"absent"}, body : {EmptyDict},
          queryKind : {"object"}, query : QueryFields]
    \cup [httpMethod : {"DELETE", "GET", None}, bodyKind : {"absent"}, body : {EmptyDict},
          queryKind : {"null"}, query : {EmptyDict}]

(* ------------------------- the two services --------------------------- *)
\* applications that exist, and the Identity Center ARN of each
Applications == {"app1"}
IdentityCenterApplicationArn(app) == <<"arn", app>>

\* ids the Subscription Service hands out: the first one not in use
SubIdPool == <<"sub1", "sub2", "sub3", "sub4", "sub5", "sub6">>
PrincipalIds == {"p1", "p2"}
\* the principals of the records the service holds before the first invocation
Principals == {EmptyDict, "group" :> "p1", "group" :> "p2", "user" :> "p1"}

VARIABLES
    pc,            \* position of the running invocation
    req,           \* payload handed to process_request
    calls,         \* upstream calls of the running invocation, in order
    response,      \* what lambda_handler returned
    subscriptionId,\* delete_subscription's local
    subs,          \* Subscription Service: the records of app1, in list order
    assignments,   \* Identity Center: the application assignments
    prevAdd,       \* the payload of the preceding invocation, when it was a
                   \* successful ADD on an empty listing (else NoRequest)
    invocations,   \* number of invocations begun
    entry          \* the services' state when the running invocation began

vars == <<pc, req, calls, response, subscriptionId, subs, assignments, prevAdd,
          invocations, entry>>

NoResponse == [statusCode |-> 0, kind |-> "none", text |-> <<>>]
NoRequest == EmptyDict
NoEntry == [subs |-> <<>>, assignments |-> {}]

(* --------------------------- responses -------------------------------- *)
\* {'statusCode': status, 'body': json.dumps({'error': text})}
ErrorResponse(status, text) == [statusCode |-> status, kind |-> "error", text |-> text]
\* {'statusCode': 200, 'body': json.dumps(result)}, result a str
ResultResponse(text) == [statusCode |-> 200, kind |-> "string", text |-> text]

(* ------------------------- lambda_handler ----------------------------- *)
\* the payload lambda_handler builds for process_request
Payload(event) ==
    IF event.httpMethod = "POST"
    THEN LET body == IF event.bodyKind = "object" THEN event.body ELSE EmptyDict
         IN  [action |-> "ADD",
              region |-> Get(body, "region"),
              applicationId |-> Get(body, "applicationId"),
              assignmentType |-> Get(body, "assignmentType"),
              assignmentId |-> Get(body, "assignmentId"),
              subscriptionType |-> Get(body, "subscriptionType")]
    ELSE LET query_params == IF event.queryKind = "null" THEN EmptyDict ELSE event.query
         IN  [action |-> "DELETE",
              region |-> Get(query_params, "region"),
              applicationId |-> Get(query_params, "applicationId"),
              assignmentType |-> Get(query_params, "assignmentType"),
              assignmentId |-> Get(query_params, "assignmentId")]

\* variant: the except clause does not catch the exception, which escapes
ExceptDoesNotCatch(text) == [statusCode |-> 0, kind |-> "unhandled", text |-> text]

\* lambda_handler's except clause: any exception becomes a 500 response
HandlerExcept(text) == ErrorResponse(500, text)

\* what lambda_handler returns without calling process_request, or NoResponse
HandlerEarlyReturn(event) ==
    IF event.httpMethod = None
    THEN HandlerExcept(<<"'httpMethod'">>)
    ELSE IF event.httpMethod = "POST" /\ event.bodyKind = "invalid"
    THEN HandlerExcept(<<"Expecting value: line 1 column 1 (char 0)">>)
    ELSE IF event.httpMethod = "POST" /\ event.bodyKind = "array"
    THEN HandlerExcept(<<"'list' object has no attribute 'get'">>)
    ELSE IF event.httpMethod \notin {"POST", "DELETE"}
    THEN ErrorResponse(400, <<"Unsupported HTTP method">>)
    ELSE NoResponse

(* ------------------------- process_request ---------------------------- *)
\* process_request's except clause: any exception becomes a 500 response
ProcessRequestExcept(text) == ErrorResponse(500, text)

\* the fields the ADD branch requires, and the DELETE branch
AddRequired(event) ==
    {event["applicationId"], Get(event, "assignmentType"),
     Get(event, "assignmentId"), Get(event, "subscriptionType")}
\* variant: the DELETE branch does not require assignmentId
DeleteRequiredWithoutId(event) == {event["applicationId"], Get(event, "assignmentType")}
DeleteRequired(event) ==
    {event["applicationId"], Get(event, "assignmentType"), Get(event, "assignmentId")}

\* what process_request returns before any upstream call, or NoResponse when
\* the request goes on to add_subscription or delete_subscription
Validate(event) ==
    IF "action" \notin DOMAIN event
    THEN ProcessRequestExcept(<<"'action'">>)
    ELSE IF "applicationId" \notin DOMAIN event
    THEN ProcessRequestExcept(<<"'applicationId'">>)
    ELSE IF event["action"] \notin {"ADD", "DELETE"}
    THEN ErrorResponse(400, <<"Invalid action. Must be ADD, or DELETE">>)
    ELSE IF event["action"] = "ADD"
    THEN IF ~All(AddRequired(event))
         THEN ErrorResponse(400, <<"assignmentType, assignmentId, and subscriptionType are required for ADD action">>)
         ELSE IF Get(event, "subscriptionType") \notin {"Q_BUSINESS", "Q_LITE"}
         THEN ErrorResponse(400, <<"Invalid subscription type. Must be Q_BUSINESS or Q_LITE">>)
         ELSE IF Get(event, "assignmentType") \notin {"GROUP", "USER"}
         THEN ErrorResponse(400, <<"Invalid assignment type. Must be GROUP or USER">>)
         ELSE NoResponse
    ELSE IF ~All(DeleteRequired(event))
         THEN ErrorResponse(400, <<"assignmentType and assignmentId are required for DELETE action">>)
         ELSE NoResponse

\* lambda_handler up to the first upstream call: it returns at once, or
\* process_request returns a validation response, or the flow begins
LambdaHandler(event) ==
    /\ pc = "idle"
    /\ invocations < MaxInvocations
    /\ invocations' = invocations + 1
    /\ entry' = [subs |-> subs, assignments |-> assignments]
    /\ UNCHANGED <<calls, subscriptionId, subs, assignments, prevAdd>>
    /\ IF HandlerEarlyReturn(event) # NoResponse
       THEN /\ req' = NoRequest
            /\ response' = HandlerEarlyReturn(event)
            /\ pc' = "done"
       ELSE /\ req' = Payload(event)
            /\ response' = Validate(Payload(event))
            /\ pc' = IF Validate(Payload(event)) # NoResponse THEN "done"
                     ELSE IF Payload(event)["action"] = "ADD"
                     THEN "add_get_application" ELSE "del_list"

(* ---------------------- upstream calls -------------------------------- *)
\* one entry of the call log: the call, whether it succeeded, and what came
\* back: the keys of the JSON response and its content (the records of a
\* listing, the id of a created subscription), or the cause of a failure
Call(op, app, principalId, principalType, sub, ok, keys, result) ==
    [op |-> op, app |-> app, principalId |-> principalId,
     principalType |-> principalType, sub |-> sub, ok |-> ok,
     keys |-> keys, result |-> result]

\* variant: the failed step is tried again
RaiseAndRetry(text) ==
    /\ response' = ProcessRequestExcept(text)
    /\ pc' = pc

\* an exception raised in add_subscription or delete_subscription ends the
\* flow in process_request's except clause
Raise(text) ==
    /\ response' = ProcessRequestExcept(text)
    /\ pc' = "done"

\* variant: the wrapping exception drops the cause
RequestFailedWithoutCause(cause) == <<"Request failed">>

\* make_qbusiness_request's except clause wraps the RequestException
RequestFailed(cause) == <<"Request failed: ", cause>>
\* a transport-level failure, or raise_for_status() on a non-2xx status
RequestExceptions == {"ConnectionError", "HTTPError"}
\* a failure of a qbusiness or sso-admin client call
ClientErrors == {"ClientError"}

\* the endpoint is reachable when region names a region and the application exists
Reachable(region, app) == region = "us-east-1" /\ app \in Applications

(* ------------------------- add_subscription --------------------------- *)
AddGetApplication ==
    /\ pc = "add_get_application"
    /\ \E ok \in BOOLEAN, cause \in ClientErrors :
        /\ ok => req.applicationId \in Applications
        /\ calls' = Append(calls, Call("get_application", req.applicationId, None, None, "",
                                       ok, {}, IF ok THEN <<>> ELSE <<cause>>))
        /\ IF ok THEN pc' = "add_create_assignment" /\ UNCHANGED response
                 ELSE Raise(<<cause>>)
    /\ UNCHANGED <<req, subscriptionId, subs, assignments, prevAdd, invocations, entry>>

AddCreateAssignment ==
    /\ pc = "add_create_assignment"
    /\ \E ok \in BOOLEAN, cause \in ClientErrors :
        /\ calls' = Append(calls, Call("create_application_assignment", req.applicationId,
                                       req.assignmentId, req.assignmentType, "",
                                       ok, {}, IF ok THEN <<>> ELSE <<cause>>))
        /\ IF ok
           THEN /\ assignments' = assignments \cup
                      {<<IdentityCenterApplicationArn(req.applicationId),
                         req.assignmentId, req.assignmentType>>}
                /\ pc' = "add_post"
                /\ UNCHANGED response
           ELSE /\ Raise(<<cause>>)
                /\ UNCHANGED assignments
    /\ UNCHANGED <<req, subscriptionId, subs, prevAdd, invocations, entry>>

\* variant: the principal key is the assignmentType as given
AddPayloadExactCase(assignmentType, assignmentId, subscriptionType) ==
    [principal |-> (assignmentType :> assignmentId), type |-> subscriptionType]

\* the body of the POST
AddPayload(assignmentType, assignmentId, subscriptionType) ==
    [principal |-> (Lower(assignmentType) :> assignmentId), type |-> subscriptionType]

\* the first id of the pool that no record of the listing carries
FreshId(list) ==
    LET used == { list[i].subscriptionId : i \in 1..Len(list) }
        free == { i \in 1..Len(SubIdPool) : SubIdPool[i] \notin used }
    IN  SubIdPool[CHOOSE i \in free : \A j \in free : i <= j]

\* variant: the id returned is the request's subscriptionId, which is None
AddResultFromRequest(postResponse) == <<"subscriptionId:", None>>

\* add_subscription's return value, from the response of the POST
AddResult(postResponse) == <<"subscriptionId:", postResponse.subscriptionId>>

AddPostSubscription ==
    /\ pc = "add_post"
    /\ \E ok \in BOOLEAN, cause \in RequestExceptions :
        LET payload == AddPayload(req.assignmentType, req.assignmentId, req.subscriptionType)
            postResponse == [subscriptionId |-> FreshId(subs)]
        IN
        /\ ok => Reachable(req.region, req.applicationId) /\ Len(subs) < MaxSubs
        /\ calls' = Append(calls, Call("POST", req.applicationId, req.assignmentId,
                                       CHOOSE k \in DOMAIN payload.principal : TRUE, "",
                                       ok, IF ok THEN {"subscriptionId"} ELSE {},
                                       IF ok THEN <<postResponse.subscriptionId>>
                                             ELSE <<cause>>))
        /\ IF ok
           THEN /\ subs' = Append(subs, [subscriptionId |-> postResponse.subscriptionId,
                                         principal |-> payload.principal,
                                         type |-> payload.type])
                /\ response' = ResultResponse(AddResult(postResponse))
                /\ pc' = "done"
           ELSE /\ Raise(RequestFailed(cause))
                /\ UNCHANGED subs
    /\ UNCHANGED <<req, subscriptionId, assignments, prevAdd, invocations, entry>>

(* ------------------------ delete_subscription ------------------------- *)
\* variant: the key looked up is the assignmentType as given
MatchesExactCase(subscription, assignmentType, assignmentId) ==
    /\ assignmentType \in DOMAIN subscription["principal"]
    /\ subscription["principal"][assignmentType] = assignmentId

\* the test of the loop body: the lower-cased assignmentType is a key of the
\* record's principal and its value is assignmentId
Matches(subscription, assignmentType, assignmentId) ==
    LET principal == IF "principal" \in DOMAIN subscription
                     THEN subscription["principal"] ELSE EmptyDict
    IN  /\ Lower(assignmentType) \in DOMAIN principal
        /\ principal[Lower(assignmentType)] = assignmentId

\* variant: the id starts as None, which the test against "" lets through
RECURSIVE FindSubscriptionIdFromNone(_, _, _)
FindSubscriptionIdFromNone(list, assignmentType, assignmentId) ==
    IF list = <<>> THEN None
    ELSE IF Matches(Head(list), assignmentType, assignmentId)
    THEN Head(list).subscriptionId
    ELSE FindSubscriptionIdFromNone(Tail(list), assignmentType, assignmentId)

\* the loop over subscriptions_data['subscriptions'], with its break; ""
\* when no record matches
RECURSIVE FindSubscriptionId(_, _, _)
FindSubscriptionId(list, assignmentType, assignmentId) ==
    IF list = <<>> THEN ""
    ELSE IF Matches(Head(list), assignmentType, assignmentId)
    THEN Head(list).subscriptionId
    ELSE FindSubscriptionId(Tail(list), assignmentType, assignmentId)

\* variant: the subscription is not deleted before the assignment is
AfterLookupSkipsDelete == "del_get_application"

\* the step that follows a successful lookup
AfterLookup == "del_delete_subscription"

DelListSubscriptions ==
    /\ pc = "del_list"
    /\ \E ok \in BOOLEAN, cause \in RequestExceptions, hasKey \in BOOLEAN :
        LET found == FindSubscriptionId(subs, req.assignmentType, req.assignmentId) IN
        /\ ok => Reachable(req.region, req.applicationId)
        \* a response may leave the collection out only when it is empty
        /\ hasKey \/ (ok /\ subs = <<>>)
        /\ calls' = Append(calls, Call("GET", req.applicationId, None, None, "",
                                       ok, IF ok /\ hasKey THEN {"subscriptions"} ELSE {},
                                       IF ok THEN subs ELSE <<cause>>))
        /\ IF ~ok
           THEN Raise(RequestFailed(cause)) /\ UNCHANGED subscriptionId
           ELSE IF ~hasKey
           THEN /\ Raise(<<"No subscriptions found for the given application">>)
                /\ UNCHANGED subscriptionId
           ELSE IF found = ""
           THEN /\ Raise(<<"Subscription not found for the given application and principal">>)
                /\ subscriptionId' = found
           ELSE /\ subscriptionId' = found
                /\ pc' = AfterLookup
                /\ UNCHANGED response
    /\ UNCHANGED <<req, subs, assignments, prevAdd, invocations, entry>>

DelDeleteSubscription ==
    /\ pc = "del_delete_subscription"
    /\ \E ok \in BOOLEAN, cause \in RequestExceptions :
        /\ ok => Reachable(req.region, req.applicationId)
        /\ calls' = Append(calls, Call("DELETE", req.applicationId, None, None,
                                       subscriptionId,
                                       ok, {}, IF ok THEN <<>> ELSE <<cause>>))
        /\ IF ok
           THEN /\ subs' = SelectSeq(subs, LAMBDA s : s.subscriptionId # subscriptionId)
                /\ pc' = "del_get_application"
                /\ UNCHANGED response
           ELSE /\ Raise(RequestFailed(cause))
                /\ UNCHANGED subs
    /\ UNCHANGED <<req, subscriptionId, assignments, prevAdd, invocations, entry>>

DelGetApplication ==
    /\ pc = "del_get_application"
    /\ \E ok \in BOOLEAN, cause \in ClientErrors :
        /\ ok => req.applicationId \in Applications
        /\ calls' = Append(calls, Call("get_application", req.applicationId, None, None, "",
                                       ok, {}, IF ok THEN <<>> ELSE <<cause>>))
        /\ IF ok THEN pc' = "del_delete_assignment" /\ UNCHANGED response
                 ELSE Raise(<<cause>>)
    /\ UNCHANGED <<req, subscriptionId, subs, assignments, prevAdd, invocations, entry>>

\* process_request's result after delete_subscription returned
DeleteResult == <<"{status:'Application assignment deleted successfully'}">>

DelDeleteAssignment ==
    /\ pc = "del_delete_assignment"
    /\ \E ok \in BOOLEAN, cause \in ClientErrors :
        /\ calls' = Append(calls, Call("delete_application_assignment", req.applicationId,
                                       req.assignmentId, req.assignmentType, "",
                                       ok, {}, IF ok THEN <<>> ELSE <<cause>>))
        /\ IF ok
           THEN /\ assignments' = assignments \
                      {<<IdentityCenterApplicationArn(req.applicationId),
                         req.assignmentId, req.assignmentType>>}
                /\ response' = ResultResponse(DeleteResult)
                /\ pc' = "done"
           ELSE /\ Raise(<<cause>>)
                /\ UNCHANGED assignments
    /\ UNCHANGED <<req, subscriptionId, subs, prevAdd, invocations, entry>>

\* the invocation is over: the response went to the caller and nothing of the
\* invocation stays behind in the handler
Return ==
    /\ pc = "done"
    /\ pc' = "idle"
    /\ prevAdd' = IF /\ Get(req, "action") = "ADD"
                     /\ response.statusCode = 200
                     /\ Len(subs) = 1
                  THEN req ELSE NoRequest
    /\ req' = NoRequest
    /\ calls' = <<>>
    /\ response' = NoResponse
    /\ subscriptionId' = ""
    /\ entry' = NoEntry
    /\ UNCHANGED <<subs, assignments, invocations>>

(* --------------------------- specification ---------------------------- *)
\* the records the Subscription Service may hold before the first invocation
RECURSIVE InitialListing(_, _)
InitialListing(principals, n) ==
    IF principals = <<>> THEN <<>>
    ELSE <<[subscriptionId |-> SubIdPool[n], principal |-> Head(principals),
            type |-> "Q_LITE"]>> \o InitialListing(Tail(principals), n + 1)

PrincipalSeqs == UNION { [1..n -> Principals] : n \in 0..MaxSubs }

InitialAssignments == { <<IdentityCenterApplicationArn("app1"), "p1", "GROUP">> }

Init ==
    /\ pc = "idle"
    /\ req = NoRequest
    /\ calls = <<>>
    /\ response = NoResponse
    /\ subscriptionId = ""
    /\ subs \in { InitialListing(ps, 1) : ps \in PrincipalSeqs }
    /\ assignments \in SUBSET InitialAssignments
    /\ prevAdd = NoRequest
    /\ invocations = 0
    /\ entry = NoEntry

Next ==
    \/ \E event \in Events : LambdaHandler(event)
    \/ AddGetApplication
    \/ AddCreateAssignment
    \/ AddPostSubscription
    \/ DelListSubscriptions
    \/ DelDeleteSubscription
    \/ DelGetApplication
    \/ DelDeleteAssignment
    \/ Return

Spec == Init /\ [][Next]_vars

(* ------------------------------ claims -------------------------------- *)
\* shorthand over the call log of the running invocation
AllOk == \A i \in 1..Len(calls) : calls[i].ok
LastCall == calls[Len(calls)]
OpsAre(ops) == Len(calls) = Len(ops) /\ \A i \in 1..Len(ops) : calls[i].op = ops[i]
IsAdd == Get(req, "action") = "ADD"
IsDelete == Get(req, "action") = "DELETE"
ServicesUntouched == subs = entry.subs /\ assignments = entry.assignments
ReqAssignment ==
    <<IdentityCenterApplicationArn(req.applicationId), req.assignmentId, req.assignmentType>>
NotFoundMessages ==
    {<<"No subscriptions found for the given application">>,
     <<"Subscription not found for the given application and principal">>}

\* a field of the request is missing: absent, null or empty
Missing(r, f) == f \notin DOMAIN r \/ r[f] \in {None, ""}
\* the request fails the validator's contract
BadRequest(r) ==
    \/ r.action \notin {"ADD", "DELETE"}
    \/ /\ r.action = "ADD"
       /\ \/ \E f \in {"applicationId", "assignmentType", "assignmentId", "subscriptionType"} :
                Missing(r, f)
          \/ r.subscriptionType \notin {"Q_BUSINESS", "Q_LITE"}
          \/ r.assignmentType \notin {"GROUP", "USER"}
    \/ /\ r.action = "DELETE"
       /\ \E f \in {"applicationId", "assignmentType", "assignmentId"} : Missing(r, f)

\* C1: a request that misses a required field of its action, or carries an
\* invalid action, subscriptionType or (ADD) assignmentType, ends in a 400
\* error response with no upstream call made and both services untouched.
C1_ValidationFailsBeforeUpstream ==
    (req # NoRequest /\ BadRequest(req)) =>
        /\ pc = "done"
        /\ response.statusCode = 400
        /\ response.kind = "error"
        /\ calls = <<>>
        /\ ServicesUntouched

C1_Witness ==
    /\ pc = "done"
    /\ IsDelete
    /\ req.applicationId = "app1" /\ req.assignmentType = "GROUP"
    /\ Missing(req, "assignmentId")
    /\ response.statusCode = 400
    /\ calls = <<>>
    /\ subs # <<>>

AddOrder == <<"get_application", "create_application_assignment", "POST">>

\* C2: an ADD whose upstream calls all succeed makes exactly the calls
\* get_application, create_application_assignment (for the request's
\* principal), POST, in that order, and answers 200 with the subscriptionId
\* of the POST's response; at no point does an ADD leave that order.
C2_AddCallsInOrderAndReturnsId ==
    IsAdd =>
        /\ Len(calls) <= Len(AddOrder)
        /\ \A i \in 1..Len(calls) : calls[i].op = AddOrder[i]
        /\ (pc = "done" /\ calls # <<>> /\ AllOk) =>
              /\ OpsAre(AddOrder)
              /\ calls[2].principalId = req.assignmentId
              /\ calls[2].principalType = req.assignmentType
              /\ response.statusCode = 200
              /\ response.kind = "string"
              /\ response.text = <<"subscriptionId:", calls[3].result[1]>>

C2_Witness ==
    /\ pc = "done" /\ IsAdd /\ AllOk /\ OpsAre(AddOrder)
    /\ response.statusCode = 200
    /\ response.text = <<"subscriptionId:", "sub2">>

\* C3: when the listing of a DELETE comes back empty, or without a
\* subscriptions collection, the flow ends with a not-found error and issues
\* neither delete call: the listing is the only call and both services are
\* untouched.
C3_EmptyListingIsNotFound ==
    (IsDelete /\ calls # <<>> /\ calls[1].op = "GET" /\ calls[1].ok /\ calls[1].result = <<>>) =>
        /\ pc = "done"
        /\ Len(calls) = 1
        /\ response.kind = "error"
        /\ response.text \in NotFoundMessages
        /\ ServicesUntouched

C3_Witness ==
    /\ pc = "done" /\ IsDelete /\ Len(calls) = 1
    /\ calls[1].ok /\ calls[1].keys = {"subscriptions"} /\ calls[1].result = <<>>
    /\ response.text = <<"Subscription not found for the given application and principal">>

\* the record's principal has a key equal to the request's assignmentType,
\* letter case aside, with the value assignmentId
RecordMatches(s, r) ==
    \E k \in DOMAIN s.principal :
        Lower(k) = Lower(r.assignmentType) /\ s.principal[k] = r.assignmentId
\* position of the first such record of the list, 0 when there is none
FirstMatch(list, r) ==
    LET I == { i \in 1..Len(list) : RecordMatches(list[i], r) }
    IN  IF I = {} THEN 0 ELSE CHOOSE i \in I : \A j \in I : i <= j

\* C4: when the listing of a DELETE holds a record matching the request's
\* principal, the flow goes on to the subscription-delete call, and the id it
\* uses is that of the first matching record in list order, whatever other
\* records come before or after it.
C4_FirstMatchIsDeleted ==
    (/\ IsDelete /\ calls # <<>>
     /\ calls[1].op = "GET" /\ calls[1].ok /\ "subscriptions" \in calls[1].keys
     /\ FirstMatch(calls[1].result, req) # 0) =>
        LET list == calls[1].result
            first == list[FirstMatch(list, req)]
        IN  /\ subscriptionId = first.subscriptionId
            /\ (Len(calls) = 1 => pc = "del_delete_subscription")
            /\ (Len(calls) >= 2 =>
                  calls[2].op = "DELETE" /\ calls[2].sub = first.subscriptionId)

C4_Witness ==
    /\ IsDelete /\ Len(calls) >= 2
    /\ req.assignmentType = "GROUP"
    /\ calls[1].ok /\ calls[2].op = "DELETE" /\ calls[2].ok
    /\ Len(calls[1].result) = 2
    /\ ~RecordMatches(calls[1].result[1], req)
    /\ RecordMatches(calls[1].result[2], req)
    /\ calls[2].sub = calls[1].result[2].subscriptionId

C4_WitnessTwoMatch ==
    /\ IsDelete /\ Len(calls) >= 2
    /\ calls[1].ok /\ calls[2].op = "DELETE" /\ calls[2].ok
    /\ Len(calls[1].result) = 2
    /\ RecordMatches(calls[1].result[1], req)
    /\ RecordMatches(calls[1].result[2], req)
    /\ calls[2].sub = calls[1].result[1].subscriptionId

\* C5: after a successful ADD on an empty listing, a DELETE for the same
\* applicationId, assignmentType and assignmentId whose upstream calls all
\* succeed answers 200 and leaves the listing empty and the identity
\* assignment gone.
C5_AddThenDeleteRoundTrip ==
    (/\ pc = "done" /\ IsDelete /\ prevAdd # NoRequest
     /\ prevAdd.applicationId = req.applicationId
     /\ prevAdd.assignmentType = req.assignmentType
     /\ prevAdd.assignmentId = req.assignmentId
     /\ calls # <<>> /\ AllOk) =>
        /\ response.statusCode = 200
        /\ subs = <<>>
        /\ ReqAssignment \notin assignments

C5_Witness ==
    /\ pc = "done" /\ IsDelete /\ prevAdd # NoRequest
    /\ prevAdd.applicationId = req.applicationId
    /\ prevAdd.assignmentType = req.assignmentType
    /\ prevAdd.assignmentId = req.assignmentId
    /\ AllOk /\ Len(calls) = 4
    /\ ReqAssignment \in entry.assignments
    /\ Len(entry.subs) = 1
    /\ subs = <<>>
    /\ ReqAssignment \notin assignments

\* C6: a failed Subscription Service request (GET, POST or DELETE; transport
\* failure or non-2xx status) ends the invocation with a 500 error response
\* that carries the cause, and that request was made exactly once.
C6_RequestFailureIs500NoRetry ==
    (pc = "done" /\ calls # <<>> /\ LastCall.op \in {"GET", "POST", "DELETE"} /\ ~LastCall.ok) =>
        /\ response.statusCode = 500
        /\ response.kind = "error"
        /\ response.text = <<"Request failed: ", LastCall.result[1]>>
        /\ Cardinality({ i \in 1..Len(calls) : calls[i].op = LastCall.op }) = 1

C6_Witness ==
    /\ pc = "done" /\ IsDelete /\ Len(calls) = 2
    /\ calls[2].op = "DELETE" /\ ~calls[2].ok
    /\ calls[2].result = <<"ConnectionError">>
    /\ response.statusCode = 500

FlowStep ==
    \/ AddGetApplication \/ AddCreateAssignment \/ AddPostSubscription
    \/ DelListSubscriptions \/ DelDeleteSubscription
    \/ DelGetApplication \/ DelDeleteAssignment

C8_NotFoundIsClientError ==
    (pc = "done" /\ response.kind = "error" /\ response.text \in NotFoundMessages) =>
        response.statusCode \in 400..499

\* C9: once an upstream call failed, the invocation makes no further call;
\* an ADD whose POST failed keeps the assignment it created and makes no
\* assignment-delete call; a DELETE whose application lookup or
\* assignment-delete failed leaves the identity assignments as they were.
C9_FailureAbortsWithoutCompensation ==
    /\ \A i \in 1..(Len(calls) - 1) : calls[i].ok
    /\ pc \notin {"idle", "done"} => AllOk
    /\ (IsAdd /\ calls # <<>> /\ LastCall.op = "POST" /\ ~LastCall.ok) =>
          /\ pc = "done"
          /\ ReqAssignment \in assignments
          /\ \A i \in 1..Len(calls) : calls[i].op # "delete_application_assignment"
    /\ (IsDelete /\ calls # <<>> /\ ~LastCall.ok) =>
          /\ pc = "done"
          /\ assignments = entry.assignments
          /\ (LastCall.op = "DELETE" => subs = entry.subs)

C9_Witness ==
    /\ pc = "done" /\ IsDelete /\ Len(calls) = 4
    /\ calls[2].ok /\ ~calls[4].ok
    /\ calls[4].op = "delete_application_assignment"
    /\ ReqAssignment \in assignments
    /\ Len(subs) < Len(entry.subs)

C9_WitnessAdd ==
    /\ pc = "done" /\ IsAdd /\ Len(calls) = 3 /\ ~calls[3].ok
    /\ ReqAssignment \in assignments /\ ReqAssignment \notin entry.assignments

DeleteOrder == <<"GET", "DELETE", "get_application", "delete_application_assignment">>

\* C10: a DELETE with a matching record whose upstream calls all succeed
\* makes exactly the calls GET, DELETE (of the matched id), get_application,
\* delete_application_assignment (of the request's principal), in that
\* order, and answers 200; no assignment-delete is ever made before a
\* successful subscription-delete.
C10_DeleteCallsInOrder ==
    IsDelete =>
        /\ \A i \in 1..Len(calls) :
              calls[i].op = "delete_application_assignment" =>
                  \E j \in 1..(i - 1) : calls[j].op = "DELETE" /\ calls[j].ok
        /\ (pc = "done" /\ calls # <<>> /\ AllOk /\ FirstMatch(entry.subs, req) # 0) =>
              /\ OpsAre(DeleteOrder)
              /\ calls[2].sub = entry.subs[FirstMatch(entry.subs, req)].subscriptionId
              /\ calls[4].principalId = req.assignmentId
              /\ calls[4].principalType = req.assignmentType
              /\ response.statusCode = 200

C10_Witness ==
    /\ pc = "done" /\ IsDelete /\ AllOk /\ OpsAre(DeleteOrder)
    /\ response.statusCode = 200
    /\ Len(entry.subs) = 2 /\ Len(subs) = 1
====
